---- MODULE Spec2Model ----
(***************************************************************************)
(* A model of dashboard.py, the GitHub health dashboard: one script run    *)
(* per click on "Run Health Check".  A run fetches the commits of a        *)
(* repository, computes the health metrics, fetches the closed issues and  *)
(* renders the panels, the leaderboard chart, the heatmap and the          *)
(* insights.  Timestamps are whole hours since 1970-01-01T00:00Z; ratios   *)
(* are kept exact as numerator/denominator records.                        *)
(***************************************************************************)
EXTENDS Integers, Sequences, FiniteSets, TLC

(***************************************************************************)
(* Program constants                                                       *)
(***************************************************************************)
HTTP_OK == 200
ZombieDays == 30
BusFactorPercent == 50
BurnoutPercent == 30
NineToFivePercent == 5
WeekendFirstDay == 5
TopN == 5
HoursPerDay == 24
Percent == 100

\* The two options of the "Chart View Mode" radio, and the string the chart
\* branch compares the selection with.
ViewModes == {"Top 5 Developers", "Show All (Detailed)"}
TopFiveBranchLabel == "Top 5 (Clean)"

(***************************************************************************)
(* Bounds of the model                                                     *)
(***************************************************************************)
MaxItems == 3        \* commits in one response of the commits endpoint
MaxIssues == 1       \* items in one response of the issues endpoint
MaxWide == 6         \* commits in one response, specification SpecWide
MaxPair == 1         \* commits in one response, specification SpecPair

\* hours since the epoch of hour h of day number d (day 0 is 1970-01-01)
At(d, h) == d * HoursPerDay + h

Fri == At(19727, 12)      \* 2024-01-05T12:00Z, a Friday
Sat == At(19728, 10)      \* 2024-01-06T10:00Z, a Saturday
Authors == {"alice", "bob"}
Dates == {Fri, Sat}
\* what the clock may read when the calculations run: 29 days 23 hours and
\* 30 days after the Friday commit, and one hour before it
Nows == {Fri + 29 * HoursPerDay + 23, Fri + 30 * HoursPerDay, Fri - 1}
ErrorStatuses == {403, 404, 500}
SearchNames == {"", "alice", "zed"}

\* specification SpecWide: up to MaxWide commits, all of one date, the authors
\* named in the order of their first commit
WideAuthors == <<"alice", "bob", "carol", "dave", "erin", "frank", "grace", "heidi">>
WideNows == {Fri + 24}
WideSearchNames == {"", "bob"}
\* specification SpecPair: two runs, the first remembered
PairNows == {Fri + 29 * HoursPerDay + 23, Fri + 30 * HoursPerDay}
PairSearchNames == {"", "alice"}

(***************************************************************************)
(* Values                                                                  *)
(***************************************************************************)
\* Python's None for the error slot of fetch_data's result, and its strings
None == [text |-> "None", code |-> 0]
ErrorStatus(s) == [text |-> "Error: ", code |-> s]
ErrorEmpty == [text |-> "Repository is empty.", code |-> 0]
\* truth value of an error slot: None is false, a non-empty string is true
Truthy(e) == e # None

\* an item of the commits response: item['commit']['author'] is null or
\* an object with a name and a date
NullItem == [has_author |-> FALSE, name |-> "", date |-> 0]
AuthorItem(a, d) == [has_author |-> TRUE, name |-> a, date |-> d]
CommitItems == {NullItem} \cup {AuthorItem(a, d) : a \in Authors, d \in Dates}

\* an item of the issues response: a pull request, or an issue with its
\* created_at and closed_at
IssueItem(pr, c, z) == [is_pr |-> pr, created_at |-> c, closed_at |-> z]
IssueItems == {IssueItem(TRUE, Fri, Sat), IssueItem(FALSE, Fri, Fri + 12),
               IssueItem(FALSE, Fri, Fri + 48)}

RECURSIVE SeqsUpTo(_, _)
SeqsUpTo(S, n) ==
    IF n = 0 THEN {<<>>}
    ELSE LET shorter == SeqsUpTo(S, n - 1)
         IN  shorter \cup {Append(s, x) : s \in {t \in shorter : Len(t) = n - 1}, x \in S}

Response(status, data) == [status_code |-> status, json |-> data]

Frac(n, d) == [num |-> n, den |-> d]
Zero == Frac(0, 1)
\* f > k, f < k and f = k for a ratio f with a positive denominator
FracGT(f, k) == f.num > k * f.den
FracLT(f, k) == f.num < k * f.den
FracEQ(f, k) == f.num = k * f.den

Range(s) == {s[i] : i \in DOMAIN s}
Front(s) == SubSeq(s, 1, Len(s) - 1)

RECURSIVE SumSeq(_)
SumSeq(s) == IF s = <<>> THEN 0 ELSE SumSeq(Front(s)) + s[Len(s)]

(***************************************************************************)
(* fetch_data: the parse of the commits response                           *)
(***************************************************************************)
RECURSIVE ParseCommits(_)
ParseCommits(data) ==
    IF data = <<>> THEN <<>>
    ELSE LET item == data[Len(data)]
             rest == ParseCommits(Front(data))
         IN  IF item.has_author
             THEN Append(rest, [author |-> item.name, date |-> item.date])
             ELSE rest

\* fetch_data without its status check
FetchDataResultNoStatusCheck(res) ==
    IF res.json = <<>>
    THEN [df |-> <<>>, error |-> ErrorEmpty]
    ELSE [df |-> ParseCommits(res.json), error |-> None]

\* fetch_data's result (df, error) for a response
FetchDataResult(res) ==
    IF res.status_code # HTTP_OK
    THEN [df |-> <<>>, error |-> ErrorStatus(res.status_code)]
    ELSE IF res.json = <<>>
    THEN [df |-> <<>>, error |-> ErrorEmpty]
    ELSE [df |-> ParseCommits(res.json), error |-> None]

(***************************************************************************)
(* fetch_issues                                                            *)
(***************************************************************************)
RECURSIVE WaitTimes(_)
WaitTimes(data) ==
    IF data = <<>> THEN <<>>
    ELSE LET item == data[Len(data)]
             rest == WaitTimes(Front(data))
         IN  IF item.is_pr THEN rest
             ELSE Append(rest, item.closed_at - item.created_at)

\* fetch_issues answering a failed call with a marker instead of zero
FetchIssuesResultMarker(res) ==
    IF res.status_code # HTTP_OK THEN [mean |-> Frac(-1, 1), count |-> 0]
    ELSE LET wait_times == WaitTimes(res.json)
         IN  IF wait_times = <<>> THEN [mean |-> Zero, count |-> 0]
             ELSE [mean |-> Frac(SumSeq(wait_times), Len(wait_times)),
                   count |-> Len(wait_times)]

\* fetch_issues' result (mean hours, count) for a response
FetchIssuesResult(res) ==
    IF res.status_code # HTTP_OK THEN [mean |-> Zero, count |-> 0]
    ELSE LET wait_times == WaitTimes(res.json)
         IN  IF wait_times = <<>> THEN [mean |-> Zero, count |-> 0]
             ELSE [mean |-> Frac(SumSeq(wait_times), Len(wait_times)),
                   count |-> Len(wait_times)]

(***************************************************************************)
(* The calculations                                                        *)
(***************************************************************************)
\* (today - last_commit_date).days: whole days, rounded down
DaysBetween(today, last) == (today - last) \div HoursPerDay

\* Timestamp.dayofweek: Monday is 0; 1970-01-01 was a Thursday
DayOfWeek(t) == ((t \div HoursPerDay) + 3) % 7
HourOf(t) == t % HoursPerDay

RECURSIVE FirstSeen(_)
FirstSeen(s) ==
    IF s = <<>> THEN <<>>
    ELSE LET r == FirstSeen(Front(s))
         IN  IF s[Len(s)] \in Range(r) THEN r ELSE Append(r, s[Len(s)])

\* the count of an author's rows, the first row of the table left out
CountOfDropFirst(a, df) == Cardinality({i \in DOMAIN df : i > 1 /\ df[i].author = a})
CountOf(a, df) == Cardinality({i \in DOMAIN df : df[i].author = a})

\* insert e behind every entry whose count is not smaller (a stable sort)
InsertDesc(sorted, e) ==
    LET before == {i \in DOMAIN sorted : sorted[i].count >= e.count}
        k == Cardinality(before)
    IN  SubSeq(sorted, 1, k) \o <<e>> \o SubSeq(sorted, k + 1, Len(sorted))

RECURSIVE SortDesc(_)
SortDesc(s) ==
    IF s = <<>> THEN <<>> ELSE InsertDesc(SortDesc(Front(s)), s[Len(s)])

\* df['author'].value_counts(): one entry per author, largest count first
ValueCounts(df) ==
    LET names == FirstSeen([i \in DOMAIN df |-> df[i].author])
    IN  SortDesc([i \in DOMAIN names |->
                    [author |-> names[i], count |-> CountOf(names[i], df)]])

Index(counts) == [i \in DOMAIN counts |-> counts[i].author]
Values(counts) == [i \in DOMAIN counts |-> counts[i].count]
\* searched_dev in author_counts, and author_counts[searched_dev]
InIndex(a, counts) == \E i \in DOMAIN counts : counts[i].author = a
Lookup(a, counts) == counts[CHOOSE i \in DOMAIN counts : counts[i].author = a].count
HeadN(counts, n) == SubSeq(counts, 1, IF Len(counts) < n THEN Len(counts) ELSE n)

\* lead_dominance, divided by the number of authors
LeadDominanceOverAuthors(lead_count, total, counts) == Frac(lead_count * Percent, Len(counts))
\* lead_dominance = (lead_count / total_commits) * 100
LeadDominance(lead_count, total, counts) == Frac(lead_count * Percent, total)

WeekendPercent(df) ==
    Frac(Cardinality({i \in DOMAIN df : DayOfWeek(df[i].date) >= WeekendFirstDay}) * Percent,
         Len(df))

\* the status label with <= for <
StatusLabelOffByOne(days) == IF days <= ZombieDays THEN "ALIVE" ELSE "ZOMBIE"
StatusLabel(days) == IF days < ZombieDays THEN "ALIVE" ELSE "ZOMBIE"
RiskLabel(dominance) == IF FracGT(dominance, BusFactorPercent) THEN "HIGH" ELSE "LOW"
BurnoutLabel(weekend) == IF FracGT(weekend, BurnoutPercent) THEN "High" ELSE "Healthy"

\* df.groupby(['day_index', 'hour']).size(): the buckets that hold a commit
HeatmapData(df) ==
    {[day_index |-> DayOfWeek(df[i].date), hour |-> HourOf(df[i].date),
      count |-> Cardinality({j \in DOMAIN df :
                   /\ DayOfWeek(df[j].date) = DayOfWeek(df[i].date)
                   /\ HourOf(df[j].date) = HourOf(df[i].date)})] : i \in DOMAIN df}

Insight(weekend) ==
    IF FracGT(weekend, BurnoutPercent) THEN "Weekend Warrior"
    ELSE IF FracLT(weekend, NineToFivePercent) THEN "9-to-5 Pro"
    ELSE "Balanced Schedule"

(***************************************************************************)
(* What the endpoints may answer                                           *)
(***************************************************************************)
CommitResponses ==
    {Response(HTTP_OK, d) : d \in SeqsUpTo(CommitItems, MaxItems)}
        \cup {Response(s, <<>>) : s \in ErrorStatuses}
IssueResponses ==
    {Response(HTTP_OK, d) : d \in SeqsUpTo(IssueItems, MaxIssues)}
        \cup {Response(s, <<>>) : s \in ErrorStatuses}

\* SpecWide: every way up to MaxWide commits divide among authors
RECURSIVE Distinct(_)
Distinct(s) == IF s = <<>> THEN 0
               ELSE LET d == Distinct(SubSeq(s, 1, Len(s) - 1))
                    IN  IF s[Len(s)] > d THEN d + 1 ELSE d
RECURSIVE Partitions(_)
Partitions(n) ==
    IF n = 0 THEN {<<>>}
    ELSE UNION {{Append(s, k) : k \in 1..(Distinct(s) + 1)} : s \in Partitions(n - 1)}
WideData ==
    UNION {{[i \in DOMAIN s |-> AuthorItem(WideAuthors[s[i]], Fri)] : s \in Partitions(n)}
           : n \in 0..MaxWide}
WideCommitResponses ==
    {Response(HTTP_OK, d) : d \in WideData} \cup {Response(404, <<>>)}
WideIssueResponses == {Response(HTTP_OK, <<>>), Response(404, <<>>)}

\* SpecPair
PairCommitResponses ==
    {Response(HTTP_OK, d) :
        d \in SeqsUpTo({NullItem, AuthorItem("alice", Fri), AuthorItem("bob", Sat)},
                       MaxPair)}
        \cup {Response(404, <<>>)}
PairIssueResponses ==
    {Response(HTTP_OK, <<>>), Response(HTTP_OK, <<IssueItem(FALSE, Fri, Fri + 48)>>),
     Response(404, <<>>)}

(***************************************************************************)
(* State                                                                   *)
(***************************************************************************)
VARIABLES
    pc,               \* where the script run is
    searched_dev,     \* sidebar: "Compare Developer (Optional)"
    view_mode,        \* sidebar: "Chart View Mode"
    calls,            \* the requests.get calls of this run, in order
    response,         \* what the commits endpoint answered
    df,               \* the CommitTable fetch_data returned
    error,            \* the error fetch_data returned
    today,            \* pd.Timestamp.now(tz='UTC')
    computed,         \* the names the calculations have assigned
    total_commits,
    last_commit_date,
    days_inactive,
    author_counts,
    lead_name,
    lead_count,
    lead_dominance,
    weekend_percent,
    issues_response,  \* what the issues endpoint answered
    avg_hours,
    issue_count,
    avg_days,
    shown_error,      \* the message st.error displayed
    exception,        \* the uncaught exception that ended the run
    rendered,         \* the sections of the page drawn in this run
    panels,           \* the four st.metric panels
    chart,            \* the leaderboard bar chart
    heatmap,          \* the work culture map
    insight,          \* the behavior analysis
    battle,           \* the team battle block
    prev              \* the finished run before this one (history)

sidebarV == <<searched_dev, view_mode>>
fetchV == <<calls, response, df, error>>
calcV == <<today, computed, total_commits, last_commit_date, days_inactive,
           author_counts, lead_name, lead_count, lead_dominance, weekend_percent>>
issueV == <<issues_response, avg_hours, issue_count, avg_days>>
uiV == <<shown_error, exception, rendered, panels, chart, heatmap, insight, battle>>
vars == <<pc, sidebarV, fetchV, calcV, issueV, uiV, prev>>

NoResponse == Response(0, <<>>)
NoPanels == [status_label |-> "", days_inactive |-> 0, risk_label |-> "",
             lead_dominance |-> Zero, burnout_label |-> "", weekend_percent |-> Zero,
             avg_days |-> Zero, issue_count |-> 0]
NoChart == [labels |-> <<>>, values |-> <<>>]
NoBattle == [outcome |-> "", user_commits |-> 0, gap |-> 0]
NoSnapshot == [taken |-> FALSE]

\* the state of a script run that has not started
Fresh ==
    /\ calls = <<>> /\ response = NoResponse /\ df = <<>> /\ error = None
    /\ today = 0 /\ computed = {} /\ total_commits = 0 /\ last_commit_date = 0
    /\ days_inactive = 0 /\ author_counts = <<>> /\ lead_name = "" /\ lead_count = 0
    /\ lead_dominance = Zero /\ weekend_percent = Zero
    /\ issues_response = NoResponse /\ avg_hours = Zero /\ issue_count = 0
    /\ avg_days = Zero
    /\ shown_error = None /\ exception = "" /\ rendered = {} /\ panels = NoPanels
    /\ chart = NoChart /\ heatmap = {} /\ insight = "" /\ battle = NoBattle

Init ==
    /\ pc = "idle"
    /\ searched_dev = "" /\ view_mode = "Top 5 Developers"
    /\ Fresh
    /\ prev = NoSnapshot

(***************************************************************************)
(* Actions                                                                 *)
(***************************************************************************)
\* total_commits, the finished run's total carried over
TotalCommitsAccumulated(d) ==
    Len(d) + (IF prev.taken THEN prev.metrics.total_commits ELSE 0)
\* total_commits = len(df)
TotalCommits(d) == Len(d)

\* the sidebar is filled in and "Run Health Check" is clicked (lines 30-39, 85)
Trigger(names, modes) ==
    /\ pc = "idle"
    /\ \E n \in names, m \in modes :
          /\ searched_dev' = n
          /\ view_mode' = m
    /\ pc' = "fetch_data"
    /\ UNCHANGED <<fetchV, calcV, issueV, uiV, prev>>

\* df, error = fetch_data(owner_name, repo_name)
FetchData(res) ==
    /\ pc = "fetch_data"
    /\ calls' = Append(calls, "commits")
    /\ response' = res
    /\ df' = FetchDataResult(res).df
    /\ error' = FetchDataResult(res).error
    /\ pc' = "branch"
    /\ UNCHANGED <<sidebarV, calcV, issueV, uiV, prev>>

\* the error branch fetching again instead of giving up
ShowErrorRetry ==
    /\ pc = "branch"
    /\ Truthy(error)
    /\ shown_error' = error
    /\ pc' = "fetch_data"
    /\ UNCHANGED <<sidebarV, fetchV, calcV, issueV, exception, rendered, panels,
                   chart, heatmap, insight, battle, prev>>

\* if error: st.error(error)
ShowError ==
    /\ pc = "branch"
    /\ Truthy(error)
    /\ shown_error' = error
    /\ pc' = "done"
    /\ UNCHANGED <<sidebarV, fetchV, calcV, issueV, exception, rendered, panels,
                   chart, heatmap, insight, battle, prev>>

\* else: the calculations up to the weekend logic.  On an empty table
\* len(df) is 0 and df.iloc[0] raises IndexError.
Calculations(now) ==
    /\ pc = "branch"
    /\ ~Truthy(error)
    /\ total_commits' = TotalCommits(df)
    /\ IF df = <<>>
       THEN /\ computed' = {"total_commits"}
            /\ exception' = "IndexError"
            /\ pc' = "done"
            /\ UNCHANGED <<today, last_commit_date, days_inactive, author_counts,
                           lead_name, lead_count, lead_dominance, weekend_percent>>
       ELSE LET counts == ValueCounts(df)
            IN  /\ last_commit_date' = df[1].date
                /\ today' = now
                /\ days_inactive' = DaysBetween(now, df[1].date)
                /\ author_counts' = counts
                /\ lead_name' = Index(counts)[1]
                /\ lead_count' = Values(counts)[1]
                /\ lead_dominance' = LeadDominance(Values(counts)[1], TotalCommits(df), counts)
                /\ weekend_percent' = WeekendPercent(df)
                /\ computed' = {"total_commits", "last_commit_date", "days_inactive",
                                "author_counts", "lead_name", "lead_count",
                                "lead_dominance", "weekend_percent"}
                /\ exception' = exception
                /\ pc' = "fetch_issues"
    /\ UNCHANGED <<sidebarV, fetchV, issueV, shown_error, rendered, panels, chart,
                   heatmap, insight, battle, prev>>

\* avg_hours, issue_count = fetch_issues(owner_name, repo_name); avg_days
FetchIssues(res) ==
    /\ pc = "fetch_issues"
    /\ calls' = Append(calls, "issues")
    /\ issues_response' = res
    /\ avg_hours' = FetchIssuesResult(res).mean
    /\ issue_count' = FetchIssuesResult(res).count
    /\ avg_days' = Frac(FetchIssuesResult(res).mean.num,
                        FetchIssuesResult(res).mean.den * HoursPerDay)
    /\ pc' = "render"
    /\ UNCHANGED <<sidebarV, response, df, error, calcV, uiV, prev>>

\* the bar chart's data prep
ChartData(mode, counts) ==
    IF mode = TopFiveBranchLabel
    THEN [raises |-> TRUE, labels |-> <<>>, values |-> <<>>]
    ELSE [raises |-> FALSE, labels |-> Index(counts), values |-> Values(counts)]

\* the comparison with gap >= 0 for gap > 0
TeamBattleOffByOne(name, counts, lead) ==
    IF name # ""
    THEN IF InIndex(name, counts)
         THEN LET user_commits == Lookup(name, counts)
                  gap == lead - user_commits
              IN  IF gap >= 0
                  THEN [outcome |-> "trailing", user_commits |-> user_commits, gap |-> gap]
                  ELSE [outcome |-> "is_lead", user_commits |-> user_commits, gap |-> gap]
         ELSE [outcome |-> "not_found", user_commits |-> 0, gap |-> 0]
    ELSE [outcome |-> "prompt", user_commits |-> 0, gap |-> 0]

\* the team battle block
TeamBattle(name, counts, lead) ==
    IF name # ""
    THEN IF InIndex(name, counts)
         THEN LET user_commits == Lookup(name, counts)
                  gap == lead - user_commits
              IN  IF gap > 0
                  THEN [outcome |-> "trailing", user_commits |-> user_commits, gap |-> gap]
                  ELSE [outcome |-> "is_lead", user_commits |-> user_commits, gap |-> gap]
         ELSE [outcome |-> "not_found", user_commits |-> 0, gap |-> 0]
    ELSE [outcome |-> "prompt", user_commits |-> 0, gap |-> 0]

\* UI sections 1 to 3
Render ==
    /\ pc = "render"
    /\ panels' = [status_label |-> StatusLabel(days_inactive),
                  days_inactive |-> days_inactive,
                  risk_label |-> RiskLabel(lead_dominance),
                  lead_dominance |-> lead_dominance,
                  burnout_label |-> BurnoutLabel(weekend_percent),
                  weekend_percent |-> weekend_percent,
                  avg_days |-> avg_days,
                  issue_count |-> issue_count]
    /\ LET data == ChartData(view_mode, author_counts)
       IN  IF data.raises
           THEN /\ exception' = "AttributeError"
                /\ rendered' = {"panels"}
                /\ UNCHANGED <<chart, heatmap, insight, battle>>
           ELSE /\ chart' = [labels |-> data.labels, values |-> data.values]
                /\ heatmap' = HeatmapData(df)
                /\ insight' = Insight(weekend_percent)
                /\ battle' = TeamBattle(searched_dev, author_counts, lead_count)
                /\ rendered' = {"panels", "chart", "heatmap", "insight", "battle"}
                /\ exception' = exception
    /\ pc' = "done"
    /\ UNCHANGED <<sidebarV, fetchV, calcV, issueV, shown_error, prev>>

\* what a finished run took in and what it produced
Snapshot ==
    [taken |-> TRUE, searched_dev |-> searched_dev, view_mode |-> view_mode,
     response |-> response, df |-> df, today |-> today,
     issues_response |-> issues_response,
     issues_result |-> [mean |-> avg_hours, count |-> issue_count],
     exception |-> exception, shown_error |-> shown_error, rendered |-> rendered,
     metrics |-> [total_commits |-> total_commits,
                  last_commit_date |-> last_commit_date,
                  days_inactive |-> days_inactive,
                  activity_status |-> panels.status_label,
                  author_counts |-> author_counts,
                  lead_name |-> lead_name, lead_count |-> lead_count,
                  lead_dominance |-> lead_dominance,
                  bus_factor_risk |-> panels.risk_label,
                  weekend_percent |-> weekend_percent,
                  burnout_label |-> panels.burnout_label,
                  avg_issue_days |-> avg_days],
     page |-> [panels |-> panels, chart |-> chart, heatmap |-> heatmap,
               insight |-> insight, battle |-> battle]]

\* the next interaction reruns the script from the top: nothing of the run
\* is kept
Reset ==
    /\ pc = "done"
    /\ pc' = "idle"
    /\ calls' = <<>> /\ response' = NoResponse /\ df' = <<>> /\ error' = None
    /\ today' = 0 /\ computed' = {} /\ total_commits' = 0 /\ last_commit_date' = 0
    /\ days_inactive' = 0 /\ author_counts' = <<>> /\ lead_name' = "" /\ lead_count' = 0
    /\ lead_dominance' = Zero /\ weekend_percent' = Zero
    /\ issues_response' = NoResponse /\ avg_hours' = Zero /\ issue_count' = 0
    /\ avg_days' = Zero
    /\ shown_error' = None /\ exception' = "" /\ rendered' = {} /\ panels' = NoPanels
    /\ chart' = NoChart /\ heatmap' = {} /\ insight' = "" /\ battle' = NoBattle
    /\ UNCHANGED sidebarV

Rerun ==
    /\ Reset
    /\ UNCHANGED prev

\* the same, the finished run remembered for comparison with the next
RerunRecord ==
    /\ Reset
    /\ prev' = Snapshot

Next ==
    \/ Trigger(SearchNames, ViewModes)
    \/ \E res \in CommitResponses : FetchData(res)
    \/ ShowError
    \/ \E now \in Nows : Calculations(now)
    \/ \E res \in IssueResponses : FetchIssues(res)
    \/ Render
    \/ Rerun

Spec == Init /\ [][Next]_vars

NextWide ==
    \/ Trigger(WideSearchNames, ViewModes)
    \/ \E res \in WideCommitResponses : FetchData(res)
    \/ ShowError
    \/ \E now \in WideNows : Calculations(now)
    \/ \E res \in WideIssueResponses : FetchIssues(res)
    \/ Render
    \/ Rerun

SpecWide == Init /\ [][NextWide]_vars

NextPair ==
    \/ Trigger(PairSearchNames, ViewModes)
    \/ \E res \in PairCommitResponses : FetchData(res)
    \/ ShowError
    \/ \E now \in PairNows : Calculations(now)
    \/ \E res \in PairIssueResponses : FetchIssues(res)
    \/ Render
    \/ RerunRecord

SpecPair == Init /\ [][NextPair]_vars

(***************************************************************************)
(* Properties                                                              *)
(***************************************************************************)
AllMetrics == {"total_commits", "last_commit_date", "days_inactive", "author_counts",
               "lead_name", "lead_count", "lead_dominance", "weekend_percent"}
AllSections == {"panels", "chart", "heatmap", "insight", "battle"}
\* the items of the commits response that have an author, by position
Usable == {i \in DOMAIN response.json : response.json[i].has_author}
CommitsAnswered == response # NoResponse
IssuesAnswered == issues_response # NoResponse
\* the run drew the whole page
Completed == pc = "done" /\ rendered = AllSections /\ exception = ""

\* C1: whenever the commits endpoint has answered with a status s other than
\* 200, no metric is computed and nothing of the page is drawn, the run makes
\* no further step than showing the error, and once it is over the message
\* shown is the error carrying s.
C1_FetchErrorAborts ==
    (CommitsAnswered /\ response.status_code # HTTP_OK) =>
        /\ pc \in {"branch", "done"}
        /\ error = ErrorStatus(response.status_code)
        /\ computed = {} /\ rendered = {} /\ panels = NoPanels /\ chart = NoChart
        /\ exception = ""
        /\ (pc = "done" => shown_error = ErrorStatus(response.status_code))

C1_Witness ==
    /\ pc = "done" /\ response.status_code = 404
    /\ shown_error = ErrorStatus(404) /\ computed = {}

\* C2: whenever the commits endpoint answered 200 with no usable record (an
\* empty list, or only null authors), no metric is computed, and once the run
\* is over the empty-repository error has been shown; any metric is computed
\* only on a non-empty CommitTable.
C2_EmptyTableAborts ==
    /\ (CommitsAnswered /\ response.status_code = HTTP_OK /\ Usable = {}) =>
          /\ computed = {}
          /\ (pc = "done" => shown_error = ErrorEmpty /\ exception = "")
    /\ (computed # {} => df # <<>>)

\* C3 (one run): a status other than 200 from the issues endpoint gives
\* mean 0 and count 0, avg_days 0, and the run goes on to draw the whole page
\* with every commit metric computed.
C3_IssueFailureNeutral ==
    (IssuesAnswered /\ issues_response.status_code # HTTP_OK) =>
        /\ avg_hours = Zero /\ issue_count = 0 /\ FracEQ(avg_days, 0)
        /\ computed = AllMetrics
        /\ shown_error = None /\ exception = ""
        /\ pc \in {"render", "done"}
        /\ (pc = "done" => rendered = AllSections /\ panels.issue_count = 0
                           /\ FracEQ(panels.avg_days, 0))

\* C3 (two runs): a run whose issues call failed produces the metrics and the
\* page of a run on the same commits, clock and sidebar whose issues call
\* answered 200 with an empty list.
C3_SameAsEmptyIssueList ==
    (/\ prev.taken /\ Completed
     /\ prev.issues_response.status_code # HTTP_OK
     /\ prev.df # <<>> /\ prev.shown_error = None
     /\ issues_response = Response(HTTP_OK, <<>>)
     /\ prev.df = df /\ prev.today = today
     /\ prev.searched_dev = searched_dev /\ prev.view_mode = view_mode) =>
        /\ prev.exception = "" /\ prev.rendered = AllSections
        /\ prev.issues_result = [mean |-> Zero, count |-> 0]
        /\ FracEQ(prev.metrics.avg_issue_days, 0)
        /\ prev.metrics = Snapshot.metrics
        /\ prev.page = Snapshot.page

\* C3: a status other than 200 from the issues endpoint never aborts the run:
\* it gives mean 0, count 0 and avg_days 0, and the metrics and the page are
\* those of a run whose issue list is empty.
C3_IssueFailureDoesNotAbort == C3_IssueFailureNeutral /\ C3_SameAsEmptyIssueList

C3_Witness ==
    /\ prev.taken /\ Completed
    /\ prev.issues_response.status_code = 404
    /\ issues_response = Response(HTTP_OK, <<>>)
    /\ prev.df = df /\ df # <<>> /\ prev.today = today
    /\ prev.searched_dev = searched_dev /\ prev.view_mode = view_mode
    /\ prev.rendered = AllSections

\* C4 as stated: every finished run has made exactly the two calls, commits
\* then issues.
C4_ExactlyTwoCalls ==
    pc = "done" => calls = <<"commits", "issues">>

\* C4 amended: the calls of a run are a prefix of <<commits, issues>> (commits
\* first, nothing repeated); a finished run has called the commits endpoint,
\* and the issues endpoint exactly when fetch_data returned no error and a
\* non-empty CommitTable.
C4_CallOrder ==
    /\ calls \in {<<>>, <<"commits">>, <<"commits", "issues">>}
    /\ (pc = "done" =>
          calls = IF error = None /\ Usable # {}
                  THEN <<"commits", "issues">> ELSE <<"commits">>)
    /\ (calls = <<>> <=> pc \in {"idle", "fetch_data"})

C4_Witness ==
    pc = "done" /\ calls = <<"commits", "issues">> /\ rendered = AllSections

\* C5: in a run that draws the chart, mode "Top 5 Developers" charts only the
\* (at most 5) highest-count authors and mode "Show All (Detailed)" charts
\* every author of author_counts.
C5_DisplayModeControlsChart ==
    (pc = "done" /\ "chart" \in rendered) =>
        IF view_mode = "Top 5 Developers"
        THEN /\ Len(chart.labels) <= TopN
             /\ chart.labels = Index(HeadN(author_counts, TopN))
             /\ chart.values = Values(HeadN(author_counts, TopN))
        ELSE /\ chart.labels = Index(author_counts)
             /\ chart.values = Values(author_counts)

\* C6: once author_counts is computed, its counts sum to total_commits, which
\* is the number of response items with an author; every author of such an
\* item has one entry, holding the number of its items (at least 1), and no
\* other name has an entry.
C6_CountsSumToTotal ==
    ("author_counts" \in computed) =>
        /\ Usable # {}
        /\ total_commits = Cardinality(Usable)
        /\ SumSeq(Values(author_counts)) = total_commits
        /\ \A i \in Usable :
              /\ InIndex(response.json[i].name, author_counts)
              /\ Lookup(response.json[i].name, author_counts) >= 1
              /\ Lookup(response.json[i].name, author_counts) =
                    Cardinality({j \in Usable :
                                    response.json[j].name = response.json[i].name})
        /\ \A k \in DOMAIN author_counts :
              /\ \E i \in Usable : response.json[i].name = author_counts[k].author
              /\ \A l \in DOMAIN author_counts :
                    author_counts[l].author = author_counts[k].author => l = k

C6_Witness ==
    /\ "author_counts" \in computed /\ Len(author_counts) = 2
    /\ total_commits = 2 /\ Cardinality(Usable) < Len(response.json)

\* C7: once lead_dominance is computed it is lead_count / total_commits x 100
\* with lead_count the largest count, it lies in [0, 100], and it is 100
\* exactly when the table has one distinct author.
C7_LeadDominance ==
    ("lead_dominance" \in computed) =>
        /\ lead_dominance.den > 0
        /\ lead_dominance.num * total_commits = lead_count * Percent * lead_dominance.den
        /\ \A k \in DOMAIN author_counts : author_counts[k].count <= lead_count
        /\ \E k \in DOMAIN author_counts :
              author_counts[k].count = lead_count /\ author_counts[k].author = lead_name
        /\ ~FracLT(lead_dominance, 0) /\ ~FracGT(lead_dominance, Percent)
        /\ (FracEQ(lead_dominance, Percent) <=>
               Cardinality({response.json[i].name : i \in Usable}) = 1)

C7_Witness ==
    /\ "lead_dominance" \in computed /\ FracEQ(lead_dominance, Percent)
    /\ total_commits = 2

\* C8: in a run that reaches the comparison block, an empty search name gives
\* no comparison outcome; a name absent from author_counts gives the
\* not-found notice with the page kept; a name present gives "is lead" when
\* gap = lead_count - count <= 0 (gap is 0 for lead_name) and otherwise the
\* gap, which is positive.
C8_Comparison ==
    (pc = "done" /\ "battle" \in rendered) =>
        LET present == \E i \in Usable : response.json[i].name = searched_dev
            mine == Cardinality({i \in Usable : response.json[i].name = searched_dev})
        IN  /\ battle.outcome \in {"prompt", "not_found", "is_lead", "trailing"}
            /\ (battle.outcome = "prompt" <=> searched_dev = "")
            /\ (battle.outcome = "not_found" <=> searched_dev # "" /\ ~present)
            /\ (battle.outcome = "is_lead" <=>
                   searched_dev # "" /\ present /\ lead_count - mine <= 0)
            /\ (battle.outcome = "trailing" <=>
                   searched_dev # "" /\ present /\ lead_count - mine > 0)
            /\ (battle.outcome = "trailing" =>
                   battle.gap = lead_count - mine /\ battle.gap > 0)
            /\ (searched_dev # "" /\ searched_dev = lead_name =>
                   battle.outcome = "is_lead" /\ battle.gap = 0)
            /\ (battle.outcome = "not_found" =>
                   rendered = AllSections /\ exception = "" /\ panels # NoPanels
                   /\ chart # NoChart)

C8_Witness ==
    /\ pc = "done" /\ battle.outcome = "trailing" /\ battle.gap = 1
    /\ searched_dev = "alice" /\ lead_name = "bob"

\* the declared inputs of the metrics of two finished runs agree
SameDeclaredInputs ==
    /\ prev.taken /\ Completed /\ prev.rendered = AllSections /\ prev.exception = ""
    /\ prev.df = df /\ prev.searched_dev = searched_dev
    /\ prev.issues_result = [mean |-> avg_hours, count |-> issue_count]

\* C9 as stated: two runs on the same CommitTable, search name and issue
\* result yield identical DerivedMetrics.
C9_PureInDeclaredInputs ==
    SameDeclaredInputs => prev.metrics = Snapshot.metrics

ClockFree(m) ==
    [f \in DOMAIN m \ {"days_inactive", "activity_status"} |-> m[f]]

\* C9 amended: two runs on the same CommitTable, search name and issue result
\* yield identical DerivedMetrics apart from days_inactive and
\* activity_status, and identical DerivedMetrics altogether when the clock
\* read the same time in both.
C9_PureGivenClock ==
    SameDeclaredInputs =>
        /\ ClockFree(prev.metrics) = ClockFree(Snapshot.metrics)
        /\ (prev.today = today => prev.metrics = Snapshot.metrics)

C9_Witness ==
    /\ SameDeclaredInputs /\ prev.today = today /\ prev.view_mode # view_mode
    /\ prev.issues_response # issues_response /\ total_commits = 1

\* C10: days_inactive is the whole number of days from the date of the first
\* response item with an author to the clock's time, and the status panel
\* reads ALIVE exactly when it is below 30 (29: ALIVE, 30: ZOMBIE).
C10_ActivityStatus ==
    /\ ("days_inactive" \in computed) =>
          LET first == CHOOSE i \in Usable : \A j \in Usable : i <= j
              elapsed == today - response.json[first].date
          IN  /\ last_commit_date = response.json[first].date
              /\ days_inactive * HoursPerDay <= elapsed
              /\ elapsed < (days_inactive + 1) * HoursPerDay
    /\ ("panels" \in rendered) =>
          /\ panels.days_inactive = days_inactive
          /\ (panels.status_label = "ALIVE" <=> days_inactive < 30)
          /\ (panels.status_label = "ZOMBIE" <=> days_inactive >= 30)
          /\ (days_inactive = 29 => panels.status_label = "ALIVE")
          /\ (days_inactive = 30 => panels.status_label = "ZOMBIE")

C10_Witness ==
    /\ "panels" \in rendered /\ days_inactive = 30 /\ panels.status_label = "ZOMBIE"
    /\ response.json[1] = NullItem

====
